---- MODULE Spec2Model ----
(***************************************************************************)
(* Model of the ESP32 modular OTA firmware: the orchestrator state machine *)
(* of main.cpp (setup, loop, handle_state_machine), the OTA updater        *)
(* (manifest check, download / verify / install, backup, rollback, version *)
(* tracking) and the module loader (load, unload, reload, registry).       *)
(*                                                                         *)
(* Module binaries are identified by an index into the attribute tables    *)
(* below; file contents, downloaded bytes and loaded code are such         *)
(* indices, and SHA256 maps an index to its hex digest.                    *)
(***************************************************************************)
EXTENDS Integers, Sequences, FiniteSets, TLC

\* ------------------------------------------------------------------ bounds
\* Upper limit, in milliseconds, of the clock values explored by the model.
MaxTime == 76000
\* Milliseconds by which millis() advances between two loop iterations.
TickMs == 6000
\* Milliseconds before the wrap-around of millis() at which the runs of a
\* long-running device start.
WrapLeadMs == 40000
\* Highest patch number of the versions 1.1.x found in the bucket, and highest
\* GITHUB_RUN_NUMBER.
MaxPatch == 2

\* ------------------------------------------------------- program constants
UPDATE_CHECK_INTERVAL == 30000
SENSOR_READ_INTERVAL == 1000
SUCCESS_DISPLAY_MS == 5000
FAILURE_DISPLAY_MS == 8000
MAX_LOADED_MODULES == 8
MAX_TRACKED_MODULES == 8
MAX_PENDING_UPDATES == 8

\* millis() is an unsigned 32-bit millisecond counter.  The model keeps the
\* clock in units of MsPerUnit milliseconds, so that the whole 2^32 ms ring
\* (ClockModulus units) fits the integers of the model checker; every
\* instant and every interval of the model is a multiple of the unit.
MsPerUnit == 4
ClockModulus == 1073741824
Units(ms) == ms \div MsPerUnit

\* unsigned 32-bit subtraction, as in `current_time - last_update_check`
\* A subtraction that is not reduced to the 32 bits of the clock
signed_difference(a, b) == a - b

USub(a, b) == (a - b) % ClockModulus

\* The clock values explored: the first MaxTime milliseconds after boot and
\* the last WrapLeadMs milliseconds before the counter wraps
ClockExplored(t) == t <= Units(MaxTime) \/ t >= ClockModulus - Units(WrapLeadMs)

\* Durations by which millis() advances between two loop iterations.
TickDeltas == {Units(TickMs)}

supported_modules == <<"speed_governor", "distance_sensor">>
Modules == {supported_modules[i] : i \in 1..Len(supported_modules)}

\* -------------------------------------------------------- module binaries
\* 1: speed_governor 1.0.0          2: speed_governor 1.1.1
\* 3: speed_governor 1.1.1 whose initialize() returns false
\* 4: distance_sensor 1.0.0         5: distance_sensor 1.0.1
\* 6: distance_sensor 1.0.1 built into a file of 70000 bytes
\* (the versions are the MODULE_VERSION of the drivers' sources)
NoFile == 0
Bins == 1..6
BinModuleName ==
    <<"speed_governor", "speed_governor", "speed_governor",
      "distance_sensor", "distance_sensor", "distance_sensor">>
BinModuleVersion == <<"1.0.0", "1.1.1", "1.1.1", "1.0.0", "1.0.1", "1.0.1">>
Versions == {BinModuleVersion[b] : b \in Bins}
BinInitializeOk == <<TRUE, TRUE, FALSE, TRUE, TRUE, TRUE>>
BinInterfaceValid == <<TRUE, TRUE, TRUE, TRUE, TRUE, TRUE>>
BinFileSize == <<1024, 1024, 1024, 1024, 1024, 70000>>

\* Hex digest of a binary (distinct binaries have distinct digests).
HexDigests == <<"aaaa", "bbbb", "cccc", "dddd", "eeee", "ffff">>
SHA256(b) == HexDigests[b]
Digests == {SHA256(b) : b \in Bins}
WillBeFetchedLater == "will_be_fetched_later"

\* ------------------------------------------------------------- signatures
NullKey == "NULL"
RsaKeys == {"KEY_A", "KEY_B"}
PlaceholderSignature == <<"placeholder-for-demo-signature">>
NotBase64Signature == <<"not-base64">>
RsaSign(key, digest) == <<"rsa", key, digest>>
SignedBins == {2, 3}
Signatures ==
    {PlaceholderSignature, NotBase64Signature}
        \cup {RsaSign(k, SHA256(b)) : k \in RsaKeys, b \in SignedBins}

\* mbedtls_pk_verify over the raw digest
RsaVerify(key, digest, sig) == sig = RsaSign(key, digest)

\* Content of a downloaded metadata.json
NoMeta == <<>>
UnparseableMeta == <<"unparseable">>
MetaWithoutSignature == <<"json">>
MetaWithSignature(sig) == <<"json", sig>>
MetaDocs ==
    {UnparseableMeta, MetaWithoutSignature}
        \cup {MetaWithSignature(s) : s \in Signatures}

\* ------------------------------------------------------------- filesystem
\* Per module: bin = /<name>.bin, new = /<name>.bin.new,
\* backup = /<name>.bin.backup, meta = /<name>_metadata.json
EmptyModuleFiles == [bin |-> NoFile, new |-> NoFile, backup |-> NoFile, meta |-> NoMeta]

FsExists(f, m, slot) == IF slot = "meta" THEN f[m][slot] # NoMeta ELSE f[m][slot] # NoFile
FsWrite(f, m, slot, content) == [f EXCEPT ![m][slot] = content]
FsRemove(f, m, slot) ==
    [f EXCEPT ![m][slot] = IF slot = "meta" THEN NoMeta ELSE NoFile]
\* LittleFS.rename with an absent target; a failed rename changes nothing
FsRename(f, m, from, to, ok) ==
    IF ok /\ FsExists(f, m, from)
    THEN [res |-> TRUE, fs |-> [f EXCEPT ![m][to] = f[m][from], ![m][from] = NoFile]]
    ELSE [res |-> FALSE, fs |-> f]

\* ---------------------------------------------------------- module loader
\* A slot of the registry.  code_memory is the content copied into the
\* executable region, code_region the region it was copied to (NoRegion
\* stands for the null pointer of a cleared slot).
NoRegion == 0
Regions == 1..(MAX_LOADED_MODULES + 1)
EmptySlot ==
    [name |-> "", version |-> "", code_memory |-> NoFile, code_region |-> NoRegion,
     is_active |-> FALSE]
SlotIndexes == 1..MAX_LOADED_MODULES

\* module_loader_init; heap is the set of live regions of the executable heap
module_loader_init ==
    [modules |-> [i \in SlotIndexes |-> EmptySlot], loaded_count |-> 0, overflow |-> FALSE,
     heap |-> {}]

\* Index of the first active slot carrying the name, 0 when there is none
find_loaded_module(loader, name) ==
    LET hits == {i \in SlotIndexes :
                    loader.modules[i].is_active /\ loader.modules[i].name = name}
    IN IF hits = {} THEN 0 ELSE CHOOSE i \in hits : \A j \in hits : i <= j

module_loader_get_module(loader, name) == find_loaded_module(loader, name)
module_loader_is_module_loaded(loader, name) == find_loaded_module(loader, name) # 0

\* Outcomes of heap_caps_malloc and of file.read during one load
LoadFine == [allocOk |-> TRUE, readOk |-> TRUE]
LoadInputs ==
    {LoadFine, [allocOk |-> FALSE, readOk |-> TRUE], [allocOk |-> TRUE, readOk |-> FALSE]}

\* heap_caps_malloc hands out a region that is not live; heap_caps_free ends it
heap_caps_malloc(loader) ==
    CHOOSE r \in Regions : r \notin loader.heap /\ \A q \in Regions \ loader.heap : r <= q
Allocated(loader, r) == [loader EXCEPT !.heap = @ \cup {r}]
heap_caps_free(loader, r) == [loader EXCEPT !.heap = @ \ {r}]

\* One call into module code: the hook, the region holding its code and
\* whether that region is live when the call is made
HookCall(loader, hook, r) == [hook |-> hook, region |-> r, live |-> r \in loader.heap]

\* The slot written by a successful load: modules[loaded_count].  With the
\* table full the write lands behind the table; the registry itself is
\* then left as it is and the overflow is recorded.
StoreLoadedModule(loader, b, r) ==
    IF loader.loaded_count < MAX_LOADED_MODULES
    THEN [loader EXCEPT
            !.modules[loader.loaded_count + 1] =
                [name |-> BinModuleName[b], version |-> BinModuleVersion[b],
                 code_memory |-> b, code_region |-> r, is_active |-> TRUE],
            !.loaded_count = loader.loaded_count + 1]
    ELSE [loader EXCEPT !.overflow = TRUE,
                        !.loaded_count = (loader.loaded_count + 1) % 256]

\* The part of a load after the registry lookup.  The result carries the
\* calls made into module code, in order.
LoadFromFile(loader, f, name, in) ==
    IF ~FsExists(f, name, "bin")
    THEN [status |-> "MODULE_LOAD_FILE_NOT_FOUND", loader |-> loader, calls |-> <<>>]
    ELSE LET b == f[name].bin IN
         IF BinFileSize[b] = 0
         THEN [status |-> "MODULE_LOAD_INVALID_FORMAT", loader |-> loader, calls |-> <<>>]
         ELSE IF ~in.allocOk
         THEN [status |-> "MODULE_LOAD_MEMORY_ERROR", loader |-> loader, calls |-> <<>>]
         ELSE LET r == heap_caps_malloc(loader)
                  held == Allocated(loader, r)
                  entry == HookCall(held, "get_module_interface", r)
                  init == HookCall(held, "initialize", r)
              IN IF ~in.readOk
                 THEN [status |-> "MODULE_LOAD_INVALID_FORMAT",
                       loader |-> heap_caps_free(held, r), calls |-> <<>>]
                 ELSE IF ~BinInterfaceValid[b]
                 THEN [status |-> "MODULE_LOAD_INVALID_FORMAT",
                       loader |-> heap_caps_free(held, r), calls |-> <<entry>>]
                 ELSE IF ~BinInitializeOk[b]
                 THEN [status |-> "MODULE_LOAD_INIT_FAILED",
                       loader |-> heap_caps_free(held, r), calls |-> <<entry, init>>]
                 ELSE [status |-> "MODULE_LOAD_SUCCESS",
                       loader |-> StoreLoadedModule(held, b, r), calls |-> <<entry, init>>]

\* A load that does not look the name up in the registry first
load_module_without_loaded_check(loader, f, name, in) == LoadFromFile(loader, f, name, in)

module_loader_load_module(loader, f, name, in) ==
    IF module_loader_is_module_loaded(loader, name)
    THEN [status |-> "MODULE_LOAD_ALREADY_LOADED", loader |-> loader, calls |-> <<>>]
    ELSE LoadFromFile(loader, f, name, in)

\* An unload that frees the region and leaves the entry in the registry
unload_keeping_entry(loader, name) ==
    LET idx == find_loaded_module(loader, name) IN
    IF idx = 0
    THEN [status |-> "MODULE_UNLOAD_NOT_FOUND", loader |-> loader, calls |-> <<>>]
    ELSE LET r == loader.modules[idx].code_region
         IN [status |-> "MODULE_UNLOAD_SUCCESS",
             loader |-> heap_caps_free(loader, r),
             calls |-> <<HookCall(loader, "deinitialize", r)>>]

module_loader_unload_module(loader, name) ==
    LET idx == find_loaded_module(loader, name) IN
    IF idx = 0
    THEN [status |-> "MODULE_UNLOAD_NOT_FOUND", loader |-> loader, calls |-> <<>>]
    ELSE LET r == loader.modules[idx].code_region
             cleared ==
               [loader EXCEPT
                  !.modules = [i \in SlotIndexes |->
                                 IF i >= idx /\ i < loader.loaded_count
                                 THEN loader.modules[i + 1]
                                 ELSE IF i = loader.loaded_count
                                 THEN EmptySlot
                                 ELSE loader.modules[i]],
                  !.loaded_count = loader.loaded_count - 1]
         IN [status |-> "MODULE_UNLOAD_SUCCESS",
             loader |-> heap_caps_free(cleared, r),
             calls |-> <<HookCall(loader, "deinitialize", r)>>]

module_loader_reload_module(loader, f, name, in) ==
    LET unloaded == module_loader_unload_module(loader, name)
        loaded == module_loader_load_module(unloaded.loader, f, name, in)
    IN [status |-> loaded.status, loader |-> loaded.loader,
        calls |-> unloaded.calls \o loaded.calls]

\* module_loader_update_all_modules: update() of every active slot
module_loader_update_all_modules(loader) ==
    {HookCall(loader, "update", loader.modules[i].code_region) :
        i \in {j \in SlotIndexes : loader.modules[j].is_active}}

\* The function-table calls of update_sensors: each module is looked up by
\* name and called only when the lookup finds an active slot
update_sensors_calls(loader) ==
    {HookCall(loader, "module_functions",
              loader.modules[module_loader_get_module(loader, m)].code_region) :
        m \in {n \in Modules : module_loader_get_module(loader, n) # 0}}

\* -------------------------------------------------------- version tracker
\* ota_updater_get_module_version; "" stands for the nullptr result
ota_updater_get_module_version(updater, name) ==
    LET hits == {i \in 1..Len(updater.tracked_modules) :
                    updater.tracked_modules[i].module_name = name}
    IN IF hits = {} THEN ""
       ELSE updater.tracked_modules[CHOOSE i \in hits : \A j \in hits : i <= j].current_version

\* strncpy(dst, src, sizeof(dst) - 1) into a zeroed char[32] field, then
\* dst[sizeof(dst) - 1] = 0: at most 31 characters are kept
TRACKED_FIELD_SIZE == 32
strncpy_field(src) ==
    IF Len(src) <= TRACKED_FIELD_SIZE - 1 THEN src ELSE SubSeq(src, 1, TRACKED_FIELD_SIZE - 1)

ota_updater_set_module_version(updater, name, version) ==
    LET hits == {i \in 1..Len(updater.tracked_modules) :
                    updater.tracked_modules[i].module_name = name}
    IN IF hits # {}
       THEN LET i == CHOOSE k \in hits : \A j \in hits : k <= j
            IN [res |-> TRUE,
                updater |-> [updater EXCEPT
                               !.tracked_modules[i].current_version = strncpy_field(version)]]
       ELSE IF Len(updater.tracked_modules) < MAX_TRACKED_MODULES
       THEN [res |-> TRUE,
             updater |-> [updater EXCEPT !.tracked_modules =
                            Append(@, [module_name |-> strncpy_field(name),
                                       current_version |-> strncpy_field(version)])]]
       ELSE [res |-> FALSE, updater |-> updater]

\* ota_updater_init: no pending update, nothing tracked
ota_updater_init(public_key) ==
    [public_key_pem |-> public_key, pending_updates |-> <<>>, tracked_modules |-> <<>>]

\* ---------------------------------------------------------- manifest check
\* A manifest entry as served; NoEntry when the module is not listed
NoEntry == [latest_version |-> "", sha256 |-> ""]
ManifestHas(manifest, m) == manifest[m] # NoEntry

\* One UpdateInfo as written by parse_manifest_for_updates
NewUpdateInfo(name, current, available) ==
    [module_name |-> name, current_version |-> current,
     available_version |-> available, sha256_hash |-> WillBeFetchedLater,
     file_size |-> 0, is_critical |-> FALSE, priority |-> "normal"]

\* Pending list built from the first n supported modules
RECURSIVE ParsePrefix(_, _, _)
ParsePrefix(updater, manifest, n) ==
    IF n = 0 THEN <<>>
    ELSE LET before == ParsePrefix(updater, manifest, n - 1)
             name == supported_modules[n]
             tracked == ota_updater_get_module_version(updater, name)
             current == IF tracked = "" THEN "0.0.0" ELSE tracked
             available == manifest[name].latest_version
         IN IF Len(before) < MAX_PENDING_UPDATES
               /\ ManifestHas(manifest, name)
               /\ available # current
            THEN Append(before, NewUpdateInfo(name, current, available))
            ELSE before

\* A parse that passes over the modules the tracker does not track
parse_manifest_tracked_only(updater, manifest) ==
    [updater EXCEPT !.pending_updates =
        SelectSeq(ParsePrefix(updater, manifest, Len(supported_modules)),
                  LAMBDA u : ota_updater_get_module_version(updater, u.module_name) # "")]

parse_manifest_for_updates(updater, manifest) ==
    [updater EXCEPT !.pending_updates =
        ParsePrefix(updater, manifest, Len(supported_modules))]

\* Outcome of the manifest request: WiFi state and HTTP/JSON result
ManifestResponses == {"ok", "http_error", "bad_json"}
CheckInputs == [wifi : BOOLEAN, response : ManifestResponses]

\* A check that parses the manifest whatever the request returned
check_for_updates_ignoring_errors(updater, manifest, in) ==
    LET parsed == parse_manifest_for_updates(updater, manifest)
    IN [status |-> IF Len(parsed.pending_updates) > 0
                   THEN "UPDATE_SUCCESS" ELSE "UPDATE_NO_UPDATES_AVAILABLE",
        updater |-> parsed]

ota_updater_check_for_updates(updater, manifest, in) ==
    IF ~in.wifi
    THEN [status |-> "UPDATE_NETWORK_ERROR", updater |-> updater]
    ELSE IF in.response # "ok"
    THEN [status |-> "UPDATE_DOWNLOAD_FAILED", updater |-> updater]
    ELSE LET parsed == parse_manifest_for_updates(updater, manifest)
         IN [status |-> IF Len(parsed.pending_updates) > 0
                        THEN "UPDATE_SUCCESS" ELSE "UPDATE_NO_UPDATES_AVAILABLE",
             updater |-> parsed]

ota_updater_has_pending_updates(updater) == Len(updater.pending_updates) > 0

\* A clear that leaves the list as it is
clear_pending_updates_keeping(updater) == updater

ota_updater_clear_pending_updates(updater) == [updater EXCEPT !.pending_updates = <<>>]

\* ------------------------------------------------- backup and rollback
ota_backup_current_module(f, m, renameOk) ==
    IF FsExists(f, m, "bin")
    THEN FsRename(FsRemove(f, m, "backup"), m, "bin", "backup", renameOk)
    ELSE [res |-> TRUE, fs |-> f]

\* A rollback that copies the backup over the active file and keeps it
rollback_keeping_backup(f, m, renameOk) ==
    IF FsExists(f, m, "backup") /\ renameOk
    THEN [res |-> TRUE, fs |-> [f EXCEPT ![m].bin = f[m].backup]]
    ELSE [res |-> FALSE, fs |-> f]

ota_rollback_module(f, m, renameOk) ==
    IF FsExists(f, m, "backup")
    THEN FsRename(FsRemove(f, m, "bin"), m, "backup", "bin", renameOk)
    ELSE [res |-> FALSE, fs |-> f]

\* --------------------------------------------------- signature and install
verify_signature(content, signature, public_key_pem) ==
    IF public_key_pem = NullKey THEN FALSE
    ELSE IF signature = PlaceholderSignature THEN TRUE
    ELSE IF public_key_pem \notin RsaKeys THEN FALSE
    ELSE IF content = NoFile THEN FALSE
    ELSE IF signature = NotBase64Signature THEN FALSE
    ELSE RsaVerify(public_key_pem, SHA256(content), signature)

\* A lookup that takes the demo signature when the metadata carries none
signature_or_placeholder(doc) == IF Len(doc) = 2 THEN doc[2] ELSE PlaceholderSignature

\* signature = metadata_doc["signature"] | "missing"
SignatureOf(doc) == IF Len(doc) = 2 THEN doc[2] ELSE <<"missing">>

\* What the environment does during one download-and-apply: the two HTTP
\* downloads, the metadata content served, and the filesystem calls.
\* Each call succeeds unless it is named in the set of failing calls.
ApplyCalls ==
    {"metaHttp", "binHttp", "hashOpen", "metaOpen",
     "backupRename", "installRename", "rollbackRename"}
ApplyFailures ==
    {{}, {"metaHttp"}, {"binHttp"}, {"hashOpen"}, {"metaOpen"},
     {"backupRename"}, {"installRename"}, {"installRename", "rollbackRename"},
     {"backupRename", "installRename"},
     {"backupRename", "installRename", "rollbackRename"}}
ApplyInput(failing, doc) ==
    [c \in ApplyCalls |-> c \notin failing] @@ [metaDoc |-> doc]
ApplyInputs == {ApplyInput(failing, doc) : failing \in ApplyFailures, doc \in MetaDocs}

\* Index of the first pending update for the module, 0 when there is none
PendingIndex(updater, name) ==
    LET hits == {i \in 1..Len(updater.pending_updates) :
                    updater.pending_updates[i].module_name = name}
    IN IF hits = {} THEN 0 ELSE CHOOSE i \in hits : \A j \in hits : i <= j

\* The install part: backup, removal of the active file, rename of the
\* staged file, rollback when that rename fails
InstallStaged(f, m, in) ==
    LET backedUp == IF FsExists(f, m, "bin")
                    THEN ota_backup_current_module(f, m, in.backupRename).fs
                    ELSE f
        cleared == IF FsExists(backedUp, m, "bin")
                   THEN FsRemove(backedUp, m, "bin") ELSE backedUp
        moved == FsRename(cleared, m, "new", "bin", in.installRename)
    IN IF ~moved.res
       THEN [status |-> "UPDATE_INSTALLATION_FAILED",
             fs |-> FsRemove(ota_rollback_module(moved.fs, m, in.rollbackRename).fs,
                             m, "meta")]
       ELSE [status |-> "UPDATE_SUCCESS", fs |-> FsRemove(moved.fs, m, "meta")]

\* A download-and-apply that leaves the staged file behind when the digest
\* differs
download_and_apply_keeping_staged(updater, f, served, m, in) ==
    LET idx == PendingIndex(updater, m) IN
    IF idx = 0
    THEN [status |-> "UPDATE_INSTALLATION_FAILED", fs |-> f]
    ELSE IF ~in.metaHttp
    THEN [status |-> "UPDATE_DOWNLOAD_FAILED", fs |-> f]
    ELSE LET f1 == FsWrite(f, m, "meta", in.metaDoc) IN
    IF ~in.binHttp \/ served[m] = NoFile
    THEN [status |-> "UPDATE_DOWNLOAD_FAILED", fs |-> FsRemove(f1, m, "meta")]
    ELSE LET f2 == FsWrite(f1, m, "new", served[m])
             discard == FsRemove(FsRemove(f2, m, "meta"), m, "new")
             signature == SignatureOf(f2[m].meta)
    IN
    IF ~in.hashOpen
    THEN [status |-> "UPDATE_VERIFICATION_FAILED", fs |-> discard]
    ELSE IF SHA256(f2[m].new) # updater.pending_updates[idx].sha256_hash
    THEN [status |-> "UPDATE_VERIFICATION_FAILED", fs |-> FsRemove(f2, m, "meta")]
    ELSE IF ~in.metaOpen
    THEN [status |-> "UPDATE_VERIFICATION_FAILED", fs |-> FsRemove(f2, m, "new")]
    ELSE IF f2[m].meta = UnparseableMeta
    THEN [status |-> "UPDATE_VERIFICATION_FAILED", fs |-> discard]
    ELSE IF signature = <<"missing">>
    THEN [status |-> "UPDATE_VERIFICATION_FAILED", fs |-> discard]
    ELSE IF ~verify_signature(f2[m].new, signature, updater.public_key_pem)
    THEN [status |-> "UPDATE_VERIFICATION_FAILED", fs |-> discard]
    ELSE InstallStaged(f2, m, in)

ota_updater_download_and_apply_update(updater, f, served, m, in) ==
    LET idx == PendingIndex(updater, m) IN
    IF idx = 0
    THEN [status |-> "UPDATE_INSTALLATION_FAILED", fs |-> f]
    ELSE IF ~in.metaHttp
    THEN [status |-> "UPDATE_DOWNLOAD_FAILED", fs |-> f]
    ELSE LET f1 == FsWrite(f, m, "meta", in.metaDoc) IN
    IF ~in.binHttp \/ served[m] = NoFile
    THEN [status |-> "UPDATE_DOWNLOAD_FAILED", fs |-> FsRemove(f1, m, "meta")]
    ELSE LET f2 == FsWrite(f1, m, "new", served[m])
             discard == FsRemove(FsRemove(f2, m, "meta"), m, "new")
             signature == SignatureOf(f2[m].meta)
    IN
    IF ~in.hashOpen
    THEN [status |-> "UPDATE_VERIFICATION_FAILED", fs |-> discard]
    ELSE IF SHA256(f2[m].new) # updater.pending_updates[idx].sha256_hash
    THEN [status |-> "UPDATE_VERIFICATION_FAILED", fs |-> discard]
    ELSE IF ~in.metaOpen
    THEN [status |-> "UPDATE_VERIFICATION_FAILED", fs |-> FsRemove(f2, m, "new")]
    ELSE IF f2[m].meta = UnparseableMeta
    THEN [status |-> "UPDATE_VERIFICATION_FAILED", fs |-> discard]
    ELSE IF signature = <<"missing">>
    THEN [status |-> "UPDATE_VERIFICATION_FAILED", fs |-> discard]
    ELSE IF ~verify_signature(f2[m].new, signature, updater.public_key_pem)
    THEN [status |-> "UPDATE_VERIFICATION_FAILED", fs |-> discard]
    ELSE InstallStaged(f2, m, in)

\* ------------------------------------------------------------ environment
\* Public key compiled into the firmware (SIGNING_PUBLIC_KEY)
ConfiguredKeys == {"KEY_A", NullKey}

\* Binaries the server may serve as <name>/latest/<name>.bin
ServedBins ==
    [speed_governor : {2, 3}, distance_sensor : {5, 6}]

\* Manifest entries offered for a module whose served binary is b
ManifestEntries(m, b) ==
    {NoEntry, [latest_version |-> BinModuleVersion[b], sha256 |-> SHA256(b)]}
        \cup (IF m = "speed_governor"
              THEN {[latest_version |-> BinModuleVersion[b], sha256 |-> SHA256(1)],
                    [latest_version |-> "1.0.0", sha256 |-> SHA256(b)]}
              ELSE {})

\* The oversized build is explored on servers that offer no speed_governor
\* update at the same time.
Servers ==
    {srv \in UNION {[manifest : [speed_governor :
                                    ManifestEntries("speed_governor", bins.speed_governor),
                                distance_sensor :
                                    ManifestEntries("distance_sensor", bins.distance_sensor)],
                    bin : {bins}] : bins \in ServedBins} :
        BinFileSize[srv.bin.distance_sensor] > 1024 =>
            srv.manifest.speed_governor = NoEntry}

\* Module files found in flash at boot
InitialFs ==
    {[speed_governor |-> [EmptyModuleFiles EXCEPT !.bin = a],
      distance_sensor |-> [EmptyModuleFiles EXCEPT !.bin = b]] :
        a \in {NoFile, 1, 2}, b \in {NoFile, 4}}

\* -------------------------------------------- speed governor build 1.1.1
\* Module data files of the host: "/module_data_<key>", NoData when absent
NoData == -1000
DefaultSpeedLimit == 42
DefaultHighwayLimit == 100
NoOverride == -1
SchoolZoneLimit == 25
UninitializedLimit == 120

\* The statics of the build as loaded, before initialize is called;
\* result is the value returned by the last get_speed_limit (NoData: none)
GovernorStatics ==
    [sys_api |-> FALSE, current_speed_limit |-> DefaultSpeedLimit,
     override_speed_limit |-> NoOverride, highway_speed_limit |-> DefaultHighwayLimit]
GovernorImage ==
    GovernorStatics @@ [saved_speed_limit |-> NoData, saved_highway_speed_limit |-> NoData,
                        result |-> NoData]

\* initialize_module: saved configuration replaces the defaults
initialize_module(g) ==
    [g EXCEPT !.sys_api = TRUE,
              !.current_speed_limit =
                  IF g.saved_speed_limit # NoData THEN g.saved_speed_limit ELSE @,
              !.highway_speed_limit =
                  IF g.saved_highway_speed_limit # NoData
                  THEN g.saved_highway_speed_limit ELSE @]

\* deinitialize_module: the configuration is saved
deinitialize_module(g) ==
    IF g.sys_api
    THEN [g EXCEPT !.saved_speed_limit = g.current_speed_limit,
                   !.saved_highway_speed_limit = g.highway_speed_limit,
                   !.sys_api = FALSE]
    ELSE g

set_speed_limit_override(g, new_limit) ==
    IF ~g.sys_api THEN g ELSE [g EXCEPT !.override_speed_limit = new_limit]

get_speed_limit(g, current_speed, road_conditions) ==
    IF ~g.sys_api THEN UninitializedLimit
    ELSE IF g.override_speed_limit > 0 THEN g.override_speed_limit
    ELSE IF road_conditions = 0 THEN g.current_speed_limit
    ELSE IF road_conditions = 1 THEN g.highway_speed_limit
    ELSE IF road_conditions = 2 THEN g.current_speed_limit - 10
    ELSE IF road_conditions = 3 THEN SchoolZoneLimit
    ELSE g.current_speed_limit

\* --------------------------- deployment script (deploy-to-supabase.sh)
\* One module is deployed into the ota-modules bucket.  Versions are texts
\* "major.minor.patch"; an object path is the sequence of its segments.
max_retries == 3
BASE_VERSION == "1.1.0"
DeployedModule == "speed_governor"
BinaryName == DeployedModule \o ".bin"
MetadataName == "metadata.json"
LatestDir == "latest"
ManifestPath == <<"manifest.json">>

VersionText(v) == ToString(v[1]) \o "." \o ToString(v[2]) \o "." \o ToString(v[3])
SeriesVersions == {<<1, 1, patch>> : patch \in 0..(MaxPatch + 1)}
OtherSeriesVersion == <<1, 0, MaxPatch + 1>>
KnownVersions == SeriesVersions \cup {OtherSeriesVersion}
\* IFS='.' read -r major minor patch
ReadVersion(text) == CHOOSE v \in KnownVersions : VersionText(v) = text
DirNames == {VersionText(v) : v \in KnownVersions} \cup {LatestDir}
ObjectPaths ==
    {<<DeployedModule, dir, file>> : dir \in DirNames, file \in {BinaryName, MetadataName}}
        \cup {ManifestPath}

NoObject == [kind |-> "none", build |-> "", version |-> ""]
BinaryObject(build) == [kind |-> "binary", build |-> build, version |-> ""]
\* metadata.json: "version" and the sha256 of the binary of that build
MetadataObject(build, version) == [kind |-> "metadata", build |-> build, version |-> version]
\* manifest.json: .[module].latest_version ("" without an entry)
ManifestObject(version) == [kind |-> "manifest", build |-> "", version |-> version]

\* select(.name | test("^[0-9]"))
StartsWithDigit(name) ==
    SubSeq(name, 1, 1) \in {"0", "1", "2", "3", "4", "5", "6", "7", "8", "9"}

VersionBefore(a, b) ==
    \/ a[1] < b[1]
    \/ a[1] = b[1] /\ a[2] < b[2]
    \/ a[1] = b[1] /\ a[2] = b[2] /\ a[3] < b[3]

\* sort -V
RECURSIVE SortV(_)
SortV(names) ==
    IF names = {} THEN <<>>
    ELSE LET first == CHOOSE n \in names :
                          \A o \in names \ {n} : VersionBefore(ReadVersion(n), ReadVersion(o))
         IN <<first>> \o SortV(names \ {first})

get_existing_versions(bucket, listed) ==
    IF listed
    THEN SortV({dir \in DirNames :
                   /\ StartsWithDigit(dir)
                   /\ \E file \in {BinaryName, MetadataName} :
                         bucket[<<DeployedModule, dir, file>>] # NoObject})
    ELSE <<>>

RECURSIVE HighestPatch(_, _, _)
HighestPatch(existing_versions, base, highest_patch) ==
    IF existing_versions = <<>> THEN highest_patch
    ELSE LET version == ReadVersion(Head(existing_versions))
             next == IF /\ version[1] = base[1]
                        /\ version[2] = base[2]
                        /\ version[3] >= highest_patch
                     THEN version[3] + 1
                     ELSE highest_patch
         IN HighestPatch(Tail(existing_versions), base, next)

generate_next_version(bucket, listed, base_version) ==
    LET existing_versions == get_existing_versions(bucket, listed)
        base == ReadVersion(base_version)
    IN IF existing_versions = <<>> THEN base_version
       ELSE VersionText(<<base[1], base[2],
                          HighestPatch(existing_versions, base, base[3])>>)

\* The storage server's answer to POST: an object that exists is not
\* replaced (409, or 400 as a bad request); otherwise the server stores it
\* (200) or answers with an error (400, 500)
Answers == {200, 400, 500}
POST(bucket, remote_path, answer) ==
    IF bucket[remote_path] # NoObject /\ answer = 200 THEN 409 ELSE answer

\* [[ "$remote_path" == *"/$module_name/"* ]]: the name as a segment with a
\* slash on both sides
ContainsModuleDir(remote_path, name) ==
    \E i \in 2..(Len(remote_path) - 1) : remote_path[i] = name

\* One pass of the while loop of upload_file.  in: answers[k] to the k-th
\* POST, put_ok for the PUT, listed for the object listing.  next says
\* whether the loop goes on (continue) or the function returns ok.
upload_attempt(bucket, local, remote_path, allow_overwrite, name, in, http_code) ==
    IF http_code \in {200, 201}
    THEN [next |-> "return", ok |-> TRUE, bucket |-> [bucket EXCEPT ![remote_path] = local],
          new_version |-> ""]
    ELSE IF http_code = 409 /\ allow_overwrite
    THEN IF in.put_ok
         THEN [next |-> "return", ok |-> TRUE,
               bucket |-> [bucket EXCEPT ![remote_path] = local], new_version |-> ""]
         ELSE [next |-> "return", ok |-> FALSE, bucket |-> bucket, new_version |-> ""]
    ELSE IF http_code \in {409, 400}
    THEN IF /\ name # ""
            /\ ContainsModuleDir(remote_path, name)
            /\ Len(remote_path) = 3
            /\ StartsWithDigit(remote_path[2])
         THEN [next |-> "continue", ok |-> FALSE, bucket |-> bucket,
               new_version |-> generate_next_version(bucket, in.listed, remote_path[2])]
         ELSE [next |-> "return", ok |-> ~allow_overwrite, bucket |-> bucket,
               new_version |-> ""]
    ELSE [next |-> "return", ok |-> FALSE, bucket |-> bucket, new_version |-> ""]

RECURSIVE upload_file(_, _, _, _, _, _, _, _)
RECURSIVE upload_loop(_, _, _, _, _, _, _, _)
upload_loop(attempt, VERSION, local, remote_path, allow_overwrite, name, in, retry_count) ==
    IF attempt.next = "continue"
    THEN upload_file(attempt.bucket, attempt.new_version, local,
                     [remote_path EXCEPT ![2] = attempt.new_version],
                     allow_overwrite, name, in, retry_count + 1)
    ELSE [ok |-> attempt.ok, bucket |-> attempt.bucket, VERSION |-> VERSION,
          retry_count |-> retry_count]

upload_file(bucket, VERSION, local, remote_path, allow_overwrite, name, in, retry_count) ==
    IF ~(retry_count < max_retries)
    THEN [ok |-> FALSE, bucket |-> bucket, VERSION |-> VERSION, retry_count |-> retry_count]
    ELSE upload_loop(upload_attempt(bucket, local, remote_path, allow_overwrite, name, in,
                                    POST(bucket, remote_path, in.answers[retry_count + 1])),
                     VERSION, local, remote_path, allow_overwrite, name, in, retry_count)

NoRunNumber == -1
\* A line of output is kept as its fields between colons
FirstLine == <<"Building module", " " \o DeployedModule>>
BinarySize == "2048"
LastLine(VERSION, HASH) == <<DeployedModule, VERSION, HASH, BinarySize>>

\* deploy_module for a module whose binary is built as `build`, written as
\* its steps: each takes the result of the upload before it.
DeployResult(ok, r, retries, lines) ==
    [ok |-> ok, bucket |-> r.bucket, VERSION |-> r.VERSION, stdout |-> lines,
     retries |-> retries]
Larger(a, b) == IF a >= b THEN a ELSE b

deploy_latest_metadata(latest_meta, retries, build) ==
    IF ~latest_meta.ok THEN DeployResult(FALSE, latest_meta, retries, <<FirstLine>>)
    ELSE DeployResult(TRUE, latest_meta, retries,
                      <<FirstLine, LastLine(latest_meta.VERSION, build)>>)

deploy_latest_binary(latest_bin, metadata, retries, build, in) ==
    IF ~latest_bin.ok THEN DeployResult(FALSE, latest_bin, retries, <<FirstLine>>)
    ELSE deploy_latest_metadata(
             upload_file(latest_bin.bucket, latest_bin.VERSION, metadata,
                         <<DeployedModule, LatestDir, MetadataName>>, TRUE, "", in, 0),
             retries, build)

deploy_metadata(meta, metadata, retries, build, in) ==
    IF ~meta.ok THEN DeployResult(FALSE, meta, Larger(retries, meta.retry_count), <<FirstLine>>)
    ELSE deploy_latest_binary(
             upload_file(meta.bucket, meta.VERSION, BinaryObject(build),
                         <<DeployedModule, LatestDir, BinaryName>>, TRUE, "", in, 0),
             metadata, Larger(retries, meta.retry_count), build, in)

\* the metadata.json is written again when the binary's upload changed VERSION
deploy_binary(bin, build, in) ==
    IF ~bin.ok THEN DeployResult(FALSE, bin, bin.retry_count, <<FirstLine>>)
    ELSE deploy_metadata(
             upload_file(bin.bucket, bin.VERSION, MetadataObject(build, bin.VERSION),
                         <<DeployedModule, bin.VERSION, MetadataName>>, FALSE,
                         DeployedModule, [in EXCEPT !.answers = in.metadata_answers], 0),
             MetadataObject(build, bin.VERSION), bin.retry_count, build, in)

deploy_version(VERSION, bucket, build, in) ==
    deploy_binary(upload_file(bucket, VERSION, BinaryObject(build),
                              <<DeployedModule, VERSION, BinaryName>>, FALSE,
                              DeployedModule, [in EXCEPT !.answers = in.binary_answers], 0),
                  build, in)

deploy_module(bucket, build, in) ==
    deploy_version(IF in.run_number # NoRunNumber
                   THEN VersionText(<<1, 1, in.run_number>>)
                   ELSE generate_next_version(bucket, in.listed, BASE_VERSION),
                   bucket, build, in)

\* --argjson size "$size"
IsJson(text) == text # "" /\ StartsWithDigit(text)
Field(line, i) == IF i <= Len(line) THEN line[i] ELSE ""

\* update_manifest with the output captured from deploy_module:
\* IFS=':' read -r module_name version hash size <<< "$module_data" reads
\* the first line
update_manifest(bucket, module_data, in) ==
    LET line == module_data[1]
        name == Field(line, 1)
        version == Field(line, 2)
        size == Field(line, 4)
        downloaded == IF bucket[ManifestPath] = NoObject THEN ManifestObject("")
                      ELSE bucket[ManifestPath]
        manifest == IF IsJson(size) /\ name = DeployedModule
                    THEN ManifestObject(version)
                    ELSE downloaded
    IN upload_file(bucket, "", manifest, ManifestPath, TRUE, "", in, 0)

NoDeployment == [pc |-> "none"]

\* ------------------------------------------------------------------ state
VARIABLES
    current_state,              \* SystemState
    now,                        \* millis(), in clock units
    last_update_check,
    last_sensor_read,
    success_state_start_time,
    failure_state_start_time,
    vehicle_idle,
    ota_updater,                \* OTAUpdater
    module_loader,              \* ModuleLoader
    fs,                         \* LittleFS content
    server,                     \* manifest.json and latest binaries served
    module_name,                \* locals of the STATE_DOWNLOADING_UPDATE case,
    status,                     \*   as left by the last update attempt
    reload_status,
    governor,                   \* statics of the loaded speed governor build
    deploy                      \* a run of the deployment script and its bucket

vars == <<current_state, now, last_update_check, last_sensor_read,
          success_state_start_time, failure_state_start_time, vehicle_idle,
          ota_updater, module_loader, fs, server,
          module_name, status, reload_status, governor, deploy>>

\* What the loop of the firmware model never writes
outside == <<server, governor, deploy>>
timers == <<last_update_check, success_state_start_time, failure_state_start_time>>
locals == <<module_name, status, reload_status>>

Init ==
    /\ current_state = "STATE_INIT"
    /\ now = 0
    /\ last_update_check = 0
    /\ last_sensor_read = 0
    /\ success_state_start_time = 0
    /\ failure_state_start_time = 0
    /\ vehicle_idle = FALSE
    /\ \E k \in ConfiguredKeys : ota_updater = ota_updater_init(k)
    /\ module_loader = module_loader_init
    /\ fs \in InitialFs
    /\ server \in Servers
    /\ governor = GovernorImage
    /\ deploy = NoDeployment
    /\ module_name = ""
    /\ status = ""
    /\ reload_status = ""

\* ------------------------------------------------------------------ setup
\* "Load initial modules": load one module and track the version it reports
LoadAndTrack(st, f, name, in) ==
    LET r == module_loader_load_module(st.loader, f, name, in)
        idx == module_loader_get_module(r.loader, name)
    IN [loader |-> r.loader,
        updater |-> IF r.status = "MODULE_LOAD_SUCCESS" /\ idx # 0
                    THEN ota_updater_set_module_version(
                             st.updater, name, r.loader.modules[idx].version).updater
                    ELSE st.updater]

SetupResult(f, key, in1, in2) ==
    LoadAndTrack(
        LoadAndTrack([loader |-> module_loader_init, updater |-> ota_updater_init(key)],
                     f, "speed_governor", in1),
        f, "distance_sensor", in2)

setup ==
    /\ current_state = "STATE_INIT"
    /\ \E in1 \in LoadInputs, in2 \in LoadInputs :
          LET r == SetupResult(fs, ota_updater.public_key_pem, in1, in2)
          IN /\ module_loader' = r.loader
             /\ ota_updater' = r.updater
    /\ current_state' = "STATE_NORMAL_OPERATION"
    /\ UNCHANGED <<now, timers, last_sensor_read, vehicle_idle, fs, outside, locals>>

\* ------------------------------------------------------------------- loop
\* update_sensors: the button is sampled once per SENSOR_READ_INTERVAL
update_sensors(t, button) ==
    IF USub(t, last_sensor_read) > Units(SENSOR_READ_INTERVAL)
    THEN vehicle_idle' = button /\ last_sensor_read' = t
    ELSE UNCHANGED <<vehicle_idle, last_sensor_read>>

\* One loop iteration begins: the clock has advanced, sensors are read
LoopEntry(d, button) ==
    /\ ClockExplored((now + d) % ClockModulus)
    /\ now' = (now + d) % ClockModulus
    /\ update_sensors((now + d) % ClockModulus, button)

NormalOperation ==
    /\ current_state = "STATE_NORMAL_OPERATION"
    /\ \E d \in TickDeltas, button \in BOOLEAN :
          /\ LoopEntry(d, button)
          /\ current_state' =
                IF USub(now', last_update_check) > Units(UPDATE_CHECK_INTERVAL)
                THEN "STATE_CHECK_UPDATES" ELSE "STATE_NORMAL_OPERATION"
    /\ UNCHANGED <<timers, ota_updater, module_loader, fs, outside, locals>>

CheckUpdates ==
    /\ current_state = "STATE_CHECK_UPDATES"
    /\ \E d \in TickDeltas, button \in BOOLEAN, in \in CheckInputs :
          /\ LoopEntry(d, button)
          /\ LET r == ota_updater_check_for_updates(ota_updater, server.manifest, in)
             IN /\ ota_updater' = r.updater
                /\ current_state' =
                      IF r.status = "UPDATE_SUCCESS"
                         /\ ota_updater_has_pending_updates(r.updater)
                      THEN "STATE_UPDATE_AVAILABLE" ELSE "STATE_NORMAL_OPERATION"
          /\ last_update_check' = now'
    /\ UNCHANGED <<success_state_start_time, failure_state_start_time,
                   module_loader, fs, outside, locals>>

\* A STATE_UPDATE_AVAILABLE case that starts the download without waiting
\* for the vehicle to be idle
UpdateAvailableUngated ==
    /\ current_state = "STATE_UPDATE_AVAILABLE"
    /\ \E d \in TickDeltas, button \in BOOLEAN :
          /\ LoopEntry(d, button)
          /\ current_state' = "STATE_DOWNLOADING_UPDATE"
    /\ UNCHANGED <<timers, ota_updater, module_loader, fs, outside, locals>>

UpdateAvailable ==
    /\ current_state = "STATE_UPDATE_AVAILABLE"
    /\ \E d \in TickDeltas, button \in BOOLEAN :
          /\ LoopEntry(d, button)
          /\ current_state' =
                IF vehicle_idle' THEN "STATE_DOWNLOADING_UPDATE"
                ELSE "STATE_UPDATE_AVAILABLE"
    /\ UNCHANGED <<timers, ota_updater, module_loader, fs, outside, locals>>

\* A handler that unloads the running module before the update is
\* downloaded and verified
ProcessUnloadingFirst(updater, loader, f, served, ain, lin) ==
    LET name == updater.pending_updates[1].module_name
        a == ota_updater_download_and_apply_update(updater, f, served, name, ain)
        u == module_loader_unload_module(loader, name).loader
        r == module_loader_load_module(u, a.fs, name, lin)
        idx == module_loader_get_module(r.loader, name)
        tracked == IF r.status = "MODULE_LOAD_SUCCESS" /\ idx # 0
                   THEN ota_updater_set_module_version(
                            updater, name, r.loader.modules[idx].version).updater
                   ELSE updater
    IN IF a.status = "UPDATE_SUCCESS"
       THEN [state |-> "STATE_UPDATE_SUCCESS", module_name |-> name,
             status |-> a.status, reload_status |-> r.status, fs |-> a.fs,
             loader |-> r.loader,
             updater |-> ota_updater_clear_pending_updates(tracked)]
       ELSE [state |-> "STATE_UPDATE_FAILURE", module_name |-> name,
             status |-> a.status, reload_status |-> "", fs |-> a.fs,
             loader |-> u,
             updater |-> ota_updater_clear_pending_updates(updater)]

\* A handler that does not reload the module after a successful install
ProcessWithoutReload(updater, loader, f, served, ain, lin) ==
    LET name == updater.pending_updates[1].module_name
        a == ota_updater_download_and_apply_update(updater, f, served, name, ain)
    IN IF a.status = "UPDATE_SUCCESS"
       THEN [state |-> "STATE_UPDATE_SUCCESS", module_name |-> name,
             status |-> a.status, reload_status |-> "MODULE_LOAD_SUCCESS",
             fs |-> a.fs, loader |-> loader,
             updater |-> ota_updater_clear_pending_updates(updater)]
       ELSE [state |-> "STATE_UPDATE_FAILURE", module_name |-> name,
             status |-> a.status, reload_status |-> "", fs |-> a.fs,
             loader |-> loader,
             updater |-> ota_updater_clear_pending_updates(updater)]

\* A handler that drains the pending list in one pass: the second pending
\* update is applied in the same step as the first
ProcessEveryPending(updater, loader, f, served, ain, lin) ==
    LET name == updater.pending_updates[1].module_name
        a == ota_updater_download_and_apply_update(updater, f, served, name, ain)
        more == Len(updater.pending_updates) > 1
        a2 == IF more
              THEN ota_updater_download_and_apply_update(
                       updater, a.fs, served,
                       updater.pending_updates[2].module_name, ain)
              ELSE a
        r == module_loader_reload_module(loader, a2.fs, name, lin)
        idx == module_loader_get_module(r.loader, name)
        tracked == IF r.status = "MODULE_LOAD_SUCCESS" /\ idx # 0
                   THEN ota_updater_set_module_version(
                            updater, name, r.loader.modules[idx].version).updater
                   ELSE updater
    IN IF a.status = "UPDATE_SUCCESS"
       THEN [state |-> "STATE_UPDATE_SUCCESS", module_name |-> name,
             status |-> a.status, reload_status |-> r.status, fs |-> a2.fs,
             loader |-> r.loader,
             updater |-> ota_updater_clear_pending_updates(tracked)]
       ELSE [state |-> "STATE_UPDATE_FAILURE", module_name |-> name,
             status |-> a.status, reload_status |-> "", fs |-> a2.fs,
             loader |-> loader,
             updater |-> ota_updater_clear_pending_updates(updater)]

\* The STATE_DOWNLOADING_UPDATE case for a non-empty pending list: download
\* and apply the first pending update, reload, track, clear the list
ProcessFirstPending(updater, loader, f, served, ain, lin) ==
    LET name == updater.pending_updates[1].module_name
        a == ota_updater_download_and_apply_update(updater, f, served, name, ain)
        r == module_loader_reload_module(loader, a.fs, name, lin)
        idx == module_loader_get_module(r.loader, name)
        tracked == IF r.status = "MODULE_LOAD_SUCCESS" /\ idx # 0
                   THEN ota_updater_set_module_version(
                            updater, name, r.loader.modules[idx].version).updater
                   ELSE updater
    IN IF a.status = "UPDATE_SUCCESS"
       THEN [state |-> "STATE_UPDATE_SUCCESS", module_name |-> name,
             status |-> a.status, reload_status |-> r.status, fs |-> a.fs,
             loader |-> r.loader,
             updater |-> ota_updater_clear_pending_updates(tracked)]
       ELSE [state |-> "STATE_UPDATE_FAILURE", module_name |-> name,
             status |-> a.status, reload_status |-> "", fs |-> a.fs,
             loader |-> loader,
             updater |-> ota_updater_clear_pending_updates(updater)]

DownloadingUpdate ==
    /\ current_state = "STATE_DOWNLOADING_UPDATE"
    /\ \E d \in TickDeltas, button \in BOOLEAN :
          /\ LoopEntry(d, button)
          /\ IF ota_updater.pending_updates # <<>>
             THEN \E ain \in ApplyInputs, lin \in LoadInputs :
                    LET p == ProcessFirstPending(ota_updater, module_loader, fs,
                                                 server.bin, ain, lin)
                    IN /\ current_state' = p.state
                       /\ module_name' = p.module_name
                       /\ status' = p.status
                       /\ reload_status' = p.reload_status
                       /\ fs' = p.fs
                       /\ module_loader' = p.loader
                       /\ ota_updater' = p.updater
                       /\ IF p.state = "STATE_UPDATE_SUCCESS"
                          THEN /\ success_state_start_time' = now'
                               /\ UNCHANGED failure_state_start_time
                          ELSE /\ failure_state_start_time' = now'
                               /\ UNCHANGED success_state_start_time
             ELSE /\ ota_updater' = ota_updater_clear_pending_updates(ota_updater)
                  /\ UNCHANGED <<current_state, locals, fs, module_loader,
                                 success_state_start_time, failure_state_start_time>>
    /\ UNCHANGED <<last_update_check, outside>>

UpdateSuccess ==
    /\ current_state = "STATE_UPDATE_SUCCESS"
    /\ \E d \in TickDeltas, button \in BOOLEAN :
          /\ LoopEntry(d, button)
          /\ current_state' =
                IF USub(now', success_state_start_time) > Units(SUCCESS_DISPLAY_MS)
                THEN "STATE_NORMAL_OPERATION" ELSE "STATE_UPDATE_SUCCESS"
    /\ UNCHANGED <<timers, ota_updater, module_loader, fs, outside, locals>>

\* A failure state that is never left
UpdateFailureNeverLeft ==
    /\ current_state = "STATE_UPDATE_FAILURE"
    /\ \E d \in TickDeltas, button \in BOOLEAN :
          /\ LoopEntry(d, button)
          /\ current_state' = "STATE_UPDATE_FAILURE"
    /\ UNCHANGED <<timers, ota_updater, module_loader, fs, outside, locals>>

UpdateFailure ==
    /\ current_state = "STATE_UPDATE_FAILURE"
    /\ \E d \in TickDeltas, button \in BOOLEAN :
          /\ LoopEntry(d, button)
          /\ current_state' =
                IF USub(now', failure_state_start_time) > Units(FAILURE_DISPLAY_MS)
                THEN "STATE_NORMAL_OPERATION" ELSE "STATE_UPDATE_FAILURE"
    /\ UNCHANGED <<timers, ota_updater, module_loader, fs, outside, locals>>

\* ---------------------------------------------------- loss of power
\* Staging as left by the two downloads of one download-and-apply
StagedFs(f, served, m, in) ==
    FsWrite(FsWrite(f, m, "meta", in.metaDoc), m, "new", served[m])

\* The update passed digest and signature verification: the install part runs
ReachesCommit(updater, f, served, m, in) ==
    /\ PendingIndex(updater, m) # 0
    /\ ota_updater_download_and_apply_update(updater, f, served, m, in).status
          \in {"UPDATE_SUCCESS", "UPDATE_INSTALLATION_FAILED"}

\* Filesystem content before the install part and after each of its
\* filesystem calls (removal of the old backup, rename of the active file
\* to the backup, removal of the active file, rename of the staged file,
\* and the two calls of the rollback when that rename fails)
CommitTrace(f, m, in) ==
    LET hadActive == FsExists(f, m, "bin")
        a1 == IF hadActive THEN FsRemove(f, m, "backup") ELSE f
        a2 == IF hadActive THEN FsRename(a1, m, "bin", "backup", in.backupRename).fs
              ELSE a1
        a3 == IF FsExists(a2, m, "bin") THEN FsRemove(a2, m, "bin") ELSE a2
        mv == FsRename(a3, m, "new", "bin", in.installRename)
        r1 == IF FsExists(mv.fs, m, "backup") THEN FsRemove(mv.fs, m, "bin") ELSE mv.fs
        r2 == ota_rollback_module(mv.fs, m, in.rollbackRename).fs
    IN IF mv.res THEN <<f, a1, a2, a3, mv.fs>>
       ELSE <<f, a1, a2, a3, mv.fs, r1, r2>>

\* Power is lost between two filesystem calls of the install part; RAM is
\* lost, flash keeps what was written, the firmware boots again
PowerLossDuringCommit ==
    /\ current_state = "STATE_DOWNLOADING_UPDATE"
    /\ ota_updater.pending_updates # <<>>
    /\ \E ain \in ApplyInputs :
          LET m == ota_updater.pending_updates[1].module_name
              trace == CommitTrace(StagedFs(fs, server.bin, m, ain), m, ain)
          IN /\ ReachesCommit(ota_updater, fs, server.bin, m, ain)
             /\ \E k \in 1..Len(trace) : fs' = trace[k]
    /\ current_state' = "STATE_INIT"
    /\ now' = 0
    /\ last_update_check' = 0
    /\ last_sensor_read' = 0
    /\ success_state_start_time' = 0
    /\ failure_state_start_time' = 0
    /\ vehicle_idle' = FALSE
    /\ ota_updater' = ota_updater_init(ota_updater.public_key_pem)
    /\ module_loader' = module_loader_init
    /\ module_name' = ""
    /\ status' = ""
    /\ reload_status' = ""
    /\ UNCHANGED outside

Next ==
    \/ setup
    \/ NormalOperation
    \/ CheckUpdates
    \/ UpdateAvailable
    \/ DownloadingUpdate
    \/ UpdateSuccess
    \/ UpdateFailure
    \/ PowerLossDuringCommit

Spec == Init /\ [][Next]_vars

\* ------------------------------------------- the updater driven by a caller
\* OTAUpdater is a plain struct of the public header: pending_updates can be
\* filled by any caller of ota_updater_download_and_apply_update.  SpecApi
\* adds, to the boot states of Spec, the states in which the firmware has
\* booted and the pending list carries digests supplied by such a caller
\* instead of the constant written by parse_manifest_for_updates.
SuppliedDigests(srv, name) == {SHA256(1), SHA256(srv.bin[name])}

SuppliedPending(parsed, srv) ==
    {[i \in 1..Len(parsed) |-> [parsed[i] EXCEPT !.sha256_hash = d[i]]] :
        d \in {e \in [1..Len(parsed) -> Digests] :
                  \A i \in 1..Len(parsed) :
                      e[i] \in SuppliedDigests(srv, parsed[i].module_name)}}

\* The instant of the first check after boot: the first loop iteration
\* later than UPDATE_CHECK_INTERVAL enters STATE_CHECK_UPDATES, the next
\* one performs the check.
FirstCheckTime == ((UPDATE_CHECK_INTERVAL \div TickMs) + 2) * Units(TickMs)

InitSupplied ==
    /\ current_state = "STATE_UPDATE_AVAILABLE"
    /\ now = FirstCheckTime
    /\ last_update_check = FirstCheckTime
    /\ last_sensor_read = FirstCheckTime
    /\ success_state_start_time = 0
    /\ failure_state_start_time = 0
    /\ vehicle_idle = FALSE
    /\ fs \in InitialFs
    /\ server \in Servers
    /\ governor = GovernorImage
    /\ deploy = NoDeployment
    /\ \E k \in ConfiguredKeys :
          LET booted == SetupResult(fs, k, LoadFine, LoadFine)
              parsed == parse_manifest_for_updates(booted.updater, server.manifest)
          IN /\ module_loader = booted.loader
             /\ parsed.pending_updates # <<>>
             /\ \E q \in SuppliedPending(parsed.pending_updates, server) :
                   ota_updater = [parsed EXCEPT !.pending_updates = q]
    /\ module_name = ""
    /\ status = ""
    /\ reload_status = ""

\* A server that offers an intact, signed build of each module
LiveBins == [speed_governor |-> 2, distance_sensor |-> 5]
LiveServer ==
    [manifest |-> [m \in Modules |->
                      [latest_version |-> BinModuleVersion[LiveBins[m]],
                       sha256 |-> SHA256(LiveBins[m])]],
     bin |-> LiveBins]

\* A device that has been running for nearly 2^32 ms: both modules loaded
\* at boot, in normal operation, the last check done just now or a while ago
LastCheckAges == {0, 28000}
InitLongRunning ==
    /\ current_state = "STATE_NORMAL_OPERATION"
    /\ now = ClockModulus - Units(WrapLeadMs)
    /\ \E age \in LastCheckAges : last_update_check = now - Units(age)
    /\ last_sensor_read = now
    /\ success_state_start_time = 0
    /\ failure_state_start_time = 0
    /\ vehicle_idle = FALSE
    /\ fs = [m \in Modules |->
                [EmptyModuleFiles EXCEPT !.bin = IF m = "speed_governor" THEN 1 ELSE 4]]
    /\ server = LiveServer
    /\ governor = GovernorImage
    /\ deploy = NoDeployment
    /\ LET booted == SetupResult(fs, "KEY_A", LoadFine, LoadFine)
       IN /\ module_loader = booted.loader
          /\ ota_updater = booted.updater
    /\ module_name = ""
    /\ status = ""
    /\ reload_status = ""

InitApi == Init \/ InitSupplied \/ InitLongRunning

SpecApi == InitApi /\ [][Next]_vars

\* loop() is called again whenever it has returned: the iterations of the
\* loop (and setup after a reset) are taken as long as the clock of the
\* model allows one.  A loss of power is never forced.
Loop ==
    \/ setup
    \/ NormalOperation
    \/ CheckUpdates
    \/ UpdateAvailable
    \/ DownloadingUpdate
    \/ UpdateSuccess
    \/ UpdateFailure

\* The runs judged for progress: the server that offers intact builds, found
\* by a device with both modules in flash
InitLive ==
    /\ Init \/ InitSupplied
    /\ server = LiveServer
    /\ \A m \in Modules : FsExists(fs, m, "bin")
SpecApiLive == InitLive /\ [][Next]_vars /\ WF_vars(Loop)

\* ------------------------------------------------ the loader called directly
\* SpecLoader applies module_loader_load_module, _unload_module and
\* _reload_module in any order to module files of any content, including a
\* file stored under one module's name whose interface reports another name.
LoaderFileBins == [speed_governor : {NoFile, 1, 2, 3, 4}, distance_sensor : {NoFile, 4}]

InitLoader ==
    /\ current_state = "STATE_NORMAL_OPERATION"
    /\ now = 0
    /\ last_update_check = 0
    /\ last_sensor_read = 0
    /\ success_state_start_time = 0
    /\ failure_state_start_time = 0
    /\ vehicle_idle = FALSE
    /\ ota_updater = ota_updater_init("KEY_A")
    /\ module_loader = module_loader_init
    /\ \E bins \in LoaderFileBins :
          fs = [m \in Modules |-> [EmptyModuleFiles EXCEPT !.bin = bins[m]]]
    /\ server = [manifest |-> [m \in Modules |-> NoEntry],
                 bin |-> [m \in Modules |-> NoFile]]
    /\ governor = GovernorImage
    /\ deploy = NoDeployment
    /\ module_name = ""
    /\ status = ""
    /\ reload_status = ""

LoaderFrame ==
    UNCHANGED <<current_state, now, timers, last_sensor_read, vehicle_idle,
                ota_updater, fs, outside, locals>>

\* Region addresses matter only up to identity.  SameUpToAddresses renames
\* the regions of a loader so that they are numbered in the order of the
\* slots that hold them, then the live regions no slot holds, then the rest;
\* the loader states of SpecLoader are kept in this form.
RegionKey(loader, r) ==
    LET holders == {i \in SlotIndexes : loader.modules[i].code_region = r}
    IN IF holders # {} THEN CHOOSE i \in holders : \A j \in holders : i <= j
       ELSE IF r \in loader.heap THEN MAX_LOADED_MODULES + r
       ELSE 2 * MAX_LOADED_MODULES + 1 + r
RegionRank(loader, r) ==
    Cardinality({q \in Regions : RegionKey(loader, q) <= RegionKey(loader, r)})
SameUpToAddresses(loader) ==
    [loader EXCEPT
       !.heap = {RegionRank(loader, r) : r \in loader.heap},
       !.modules = [i \in SlotIndexes |->
                      IF loader.modules[i].code_region = NoRegion
                      THEN loader.modules[i]
                      ELSE [loader.modules[i] EXCEPT
                              !.code_region = RegionRank(loader, @)]]]

LoadModule ==
    /\ ~module_loader.overflow
    /\ \E name \in Modules, in \in LoadInputs :
          module_loader' =
             SameUpToAddresses(module_loader_load_module(module_loader, fs, name, in).loader)
    /\ LoaderFrame

UnloadModule ==
    /\ ~module_loader.overflow
    /\ \E name \in Modules :
          module_loader' =
             SameUpToAddresses(module_loader_unload_module(module_loader, name).loader)
    /\ LoaderFrame

ReloadModule ==
    /\ ~module_loader.overflow
    /\ \E name \in Modules, in \in LoadInputs :
          module_loader' =
             SameUpToAddresses(module_loader_reload_module(module_loader, fs, name, in).loader)
    /\ LoaderFrame

\* The active file of a module is replaced between two loader calls, as an
\* installed update does
ReplaceModuleFile ==
    /\ ~module_loader.overflow
    /\ \E bins \in LoaderFileBins, m \in Modules :
          fs' = [fs EXCEPT ![m].bin = bins[m]]
    /\ UNCHANGED <<current_state, now, timers, last_sensor_read, vehicle_idle,
                   ota_updater, module_loader, outside, locals>>

NextLoader == LoadModule \/ UnloadModule \/ ReloadModule \/ ReplaceModuleFile

SpecLoader == InitLoader /\ [][NextLoader]_vars

\* ---------------------------------------------------- the governor alone
\* The speed governor build driven through its interface, on a host whose
\* flash may hold the speed limit saved by the 1.0.0 build
OverrideLimits == {NoOverride, 0, 60}
Speeds == {0, 50, 80}
RoadConditions == 0..4
SavedByOldBuild == {NoData, 40}

InitGovernor ==
    /\ current_state = "STATE_NORMAL_OPERATION"
    /\ now = 0
    /\ last_update_check = 0
    /\ last_sensor_read = 0
    /\ success_state_start_time = 0
    /\ failure_state_start_time = 0
    /\ vehicle_idle = FALSE
    /\ ota_updater = ota_updater_init("KEY_A")
    /\ module_loader = module_loader_init
    /\ fs = [m \in Modules |-> EmptyModuleFiles]
    /\ server = [manifest |-> [m \in Modules |-> NoEntry],
                 bin |-> [m \in Modules |-> NoFile]]
    /\ module_name = ""
    /\ status = ""
    /\ reload_status = ""
    /\ \E saved \in SavedByOldBuild :
          governor = [GovernorImage EXCEPT !.saved_speed_limit = saved]
    /\ deploy = NoDeployment

GovernorFrame ==
    UNCHANGED <<current_state, now, timers, last_sensor_read, vehicle_idle,
                ota_updater, module_loader, fs, server, deploy, locals>>

\* The build is copied into a fresh region: its statics start over
GovernorLoaded ==
    /\ ~governor.sys_api
    /\ governor' = GovernorStatics @@ governor
    /\ GovernorFrame

GovernorInitialize ==
    /\ ~governor.sys_api
    /\ governor' = initialize_module(governor)
    /\ GovernorFrame

GovernorDeinitialize ==
    /\ governor.sys_api
    /\ governor' = deinitialize_module(governor)
    /\ GovernorFrame

GovernorSetOverride ==
    /\ \E new_limit \in OverrideLimits :
          governor' = set_speed_limit_override(governor, new_limit)
    /\ GovernorFrame

GovernorGetSpeedLimit ==
    /\ \E current_speed \in Speeds, road_conditions \in RoadConditions :
          governor' = [governor EXCEPT
                          !.result = get_speed_limit(governor, current_speed, road_conditions)]
    /\ GovernorFrame

NextGovernor ==
    \/ GovernorLoaded
    \/ GovernorInitialize
    \/ GovernorDeinitialize
    \/ GovernorSetOverride
    \/ GovernorGetSpeedLimit

SpecGovernor == InitGovernor /\ [][NextGovernor]_vars

\* ----------------------------------------------------- the tracker alone
\* ota_updater_set_module_version called with names and versions of the
\* caller's choice.  Names that are not tracked yet come in the order of
\* ShortNames (they are interchangeable), or are the long name.
ShortNames ==
    <<"speed_governor", "distance_sensor", "brake_assist", "lane_keeper", "battery_monitor",
      "climate_control", "door_lock", "tyre_pressure", "wiper_control">>
LongName == "adaptive_cruise_control_with_lane_centering"
TrackerVersions == {"1.0.0", "1.1.1"}
TrackerNames == {ShortNames[i] : i \in 1..Len(ShortNames)} \cup {LongName}

NamesToSet(updater) ==
    LET untracked == {i \in 1..Len(ShortNames) :
                         ota_updater_get_module_version(updater, ShortNames[i]) = ""}
    IN {n \in TrackerNames : ota_updater_get_module_version(updater, n) # ""}
          \cup {ShortNames[i] : i \in {k \in untracked : \A j \in untracked : k <= j}}
          \cup {LongName}

InitTracker ==
    /\ current_state = "STATE_NORMAL_OPERATION"
    /\ now = 0
    /\ last_update_check = 0
    /\ last_sensor_read = 0
    /\ success_state_start_time = 0
    /\ failure_state_start_time = 0
    /\ vehicle_idle = FALSE
    /\ ota_updater = ota_updater_init("KEY_A")
    /\ module_loader = module_loader_init
    /\ fs = [m \in Modules |-> EmptyModuleFiles]
    /\ server = [manifest |-> [m \in Modules |-> NoEntry],
                 bin |-> [m \in Modules |-> NoFile]]
    /\ governor = GovernorImage
    /\ deploy = NoDeployment
    /\ module_name = ""
    /\ status = ""
    /\ reload_status = ""

SetModuleVersion ==
    /\ \E name \in NamesToSet(ota_updater), version \in TrackerVersions :
          ota_updater' = ota_updater_set_module_version(ota_updater, name, version).updater
    /\ UNCHANGED <<current_state, now, timers, last_sensor_read, vehicle_idle,
                   module_loader, fs, outside, locals>>

NextTracker == SetModuleVersion

SpecTracker == InitTracker /\ [][NextTracker]_vars

\* ------------------------------------------------ the deployment script
\* main of deploy-to-supabase.sh for one module, against a bucket that holds
\* the versions of earlier deployments.
EarlierBuckets ==
    {[path \in ObjectPaths |->
         IF path = ManifestPath THEN manifest
         ELSE IF path[2] \in dirs \/ (path[2] = LatestDir /\ dirs # {})
         THEN IF path[3] = BinaryName THEN BinaryObject("earlier")
              ELSE MetadataObject("earlier", IF path[2] = LatestDir
                                             THEN CHOOSE dir \in dirs : TRUE
                                             ELSE path[2])
         ELSE NoObject] :
        dirs \in SUBSET {VersionText(v) :
                            v \in {<<1, 1, patch>> : patch \in 0..MaxPatch}
                                      \cup {OtherSeriesVersion}},
        manifest \in {NoObject, ManifestObject(BASE_VERSION)}}

\* The server answering every POST of one upload_file call alike
SameAnswers == {[k \in 1..max_retries |-> answer] : answer \in Answers}

DeployInputs ==
    [run_number : {NoRunNumber} \cup 0..MaxPatch,
     listed : BOOLEAN,
     binary_answers : [1..max_retries -> Answers],
     metadata_answers : SameAnswers,
     answers : SameAnswers,
     put_ok : BOOLEAN]

\* What update_manifest meets: the listing and the run number play no part
ManifestInputs ==
    {in \in DeployInputs :
        /\ in.run_number = NoRunNumber
        /\ in.listed
        /\ in.binary_answers = in.answers
        /\ in.metadata_answers = in.answers}

InitDeploy ==
    /\ current_state = "STATE_NORMAL_OPERATION"
    /\ now = 0
    /\ last_update_check = 0
    /\ last_sensor_read = 0
    /\ success_state_start_time = 0
    /\ failure_state_start_time = 0
    /\ vehicle_idle = FALSE
    /\ ota_updater = ota_updater_init("KEY_A")
    /\ module_loader = module_loader_init
    /\ fs = [m \in Modules |-> EmptyModuleFiles]
    /\ server = [manifest |-> [m \in Modules |-> NoEntry],
                 bin |-> [m \in Modules |-> NoFile]]
    /\ governor = GovernorImage
    /\ module_name = ""
    /\ status = ""
    /\ reload_status = ""
    /\ \E bucket \in EarlierBuckets :
          deploy = [pc |-> "main", before |-> bucket, bucket |-> bucket, ok |-> TRUE,
                    VERSION |-> "", stdout |-> <<>>, retries |-> 0]

DeployFrame ==
    UNCHANGED <<current_state, now, timers, last_sensor_read, vehicle_idle,
                ota_updater, module_loader, fs, server, governor, locals>>

\* module_metadata=$(deploy_module "$module_name"), exit 1 when it fails
DeployModule ==
    /\ deploy.pc = "main"
    /\ \E in \in DeployInputs :
          LET r == deploy_module(deploy.bucket, "this", in)
          IN deploy' = [deploy EXCEPT !.pc = IF r.ok THEN "deployed" ELSE "exit",
                                      !.ok = r.ok,
                                      !.bucket = r.bucket,
                                      !.VERSION = r.VERSION,
                                      !.stdout = r.stdout,
                                      !.retries = r.retries]
    /\ DeployFrame

\* update_manifest "${deployed_modules[@]}"
UpdateManifest ==
    /\ deploy.pc = "deployed"
    /\ \E in \in ManifestInputs :
          LET r == update_manifest(deploy.bucket, deploy.stdout, in)
          IN deploy' = [deploy EXCEPT !.pc = "exit", !.ok = r.ok, !.bucket = r.bucket]
    /\ DeployFrame

NextDeploy == DeployModule \/ UpdateManifest

SpecDeploy == InitDeploy /\ [][NextDeploy]_vars

\* =================================================================== claims
Tracked(name) == ota_updater_get_module_version(ota_updater, name)

\* Registry entries of a loader carrying a name
EntriesOf(loader, name) ==
    {loader.modules[i] : i \in {j \in SlotIndexes :
        loader.modules[j].is_active /\ loader.modules[j].name = name}}

\* The module the pending list puts first
FirstPending == ota_updater.pending_updates[1].module_name

AboutToApply ==
    /\ current_state = "STATE_DOWNLOADING_UPDATE"
    /\ ota_updater.pending_updates # <<>>

\* A binary that is what the module's build produces: it reports the
\* module's name, has a valid interface and initializes
GoodBinaryFor(m, b) ==
    /\ b # NoFile
    /\ BinModuleName[b] = m
    /\ BinInterfaceValid[b]
    /\ BinInitializeOk[b]

\* MAJOR.MINOR.PATCH order of the versions of the model
VersionRank(v) ==
    IF v = "1.1.1" THEN 4 ELSE IF v = "1.0.1" THEN 3
    ELSE IF v = "1.0.0" THEN 2 ELSE IF v = "0.0.0" THEN 1 ELSE 0

C2_PendingDigestFromManifest ==
    [][(current_state = "STATE_CHECK_UPDATES"
        /\ current_state' = "STATE_UPDATE_AVAILABLE") =>
          \A i \in 1..Len(ota_updater'.pending_updates) :
              ota_updater'.pending_updates[i].sha256_hash =
                  server.manifest[ota_updater'.pending_updates[i].module_name].sha256]_vars

\* C3: two update attempts that differ only in the content of the
\* downloaded metadata.json end in the same state with the same active slot.
SameButMetadata(a1, a2) == \A c \in ApplyCalls : a1[c] = a2[c]

OfferedWithServedDigest(updater, m) ==
    LET tracked == ota_updater_get_module_version(updater, m) IN
    /\ ManifestHas(server.manifest, m)
    /\ VersionRank(server.manifest[m].latest_version) >
          VersionRank(IF tracked = "" THEN "0.0.0" ELSE tracked)
    /\ GoodBinaryFor(m, server.bin[m])
    /\ server.manifest[m].sha256 = SHA256(server.bin[m])

FaultFree(key, b) ==
    ApplyInput({}, MetaWithSignature(RsaSign(key, SHA256(b))))

C5_OfferedUpdateSucceeds ==
    [][(/\ current_state = "STATE_CHECK_UPDATES"
        /\ current_state' = "STATE_UPDATE_AVAILABLE"
        /\ ota_updater.public_key_pem # NullKey
        /\ OfferedWithServedDigest(ota_updater',
                                   ota_updater'.pending_updates[1].module_name)) =>
          LET m == ota_updater'.pending_updates[1].module_name
              p == ProcessFirstPending(
                       ota_updater', module_loader', fs', server.bin,
                       FaultFree(ota_updater.public_key_pem, server.bin[m]), LoadFine)
          IN /\ p.state = "STATE_UPDATE_SUCCESS"
             /\ EntriesOf(p.loader, m) # {}
             /\ ota_updater_get_module_version(p.updater, m) =
                    server.manifest[m].latest_version]_vars

\* C6: the registry never holds two active entries with the same name.
C6_AtMostOneEntryPerName ==
    \A i \in SlotIndexes, j \in SlotIndexes :
        (/\ module_loader.modules[i].is_active
         /\ module_loader.modules[j].is_active
         /\ module_loader.modules[i].name = module_loader.modules[j].name) => i = j

\* C7: a step of the downloading state (a reset by loss of power is not one)
\* works on one module only: the files,
\* the registry entries and the tracked version of every module other than
\* the one being updated are left as they were.
Touched(m) ==
    \/ fs'[m] # fs[m]
    \/ EntriesOf(module_loader', m) # EntriesOf(module_loader, m)
    \/ ota_updater_get_module_version(ota_updater', m) # Tracked(m)

C7_OneUpdateAtATime ==
    [][(current_state = "STATE_DOWNLOADING_UPDATE" /\ current_state' # "STATE_INIT") =>
          \A m \in Modules : Touched(m) => m = module_name']_vars

\* One of two pending updates was installed; the other module, still
\* offered at a version it does not track, was left alone
C7_OneOfTwoInstalled ==
    /\ current_state = "STATE_UPDATE_SUCCESS"
    /\ module_name = "speed_governor"
    /\ status = "UPDATE_SUCCESS"
    /\ fs["speed_governor"].bin = server.bin["speed_governor"]
    /\ ManifestHas(server.manifest, "distance_sensor")
    /\ server.manifest["distance_sensor"].latest_version # Tracked("distance_sensor")
    /\ fs["distance_sensor"].bin # server.bin["distance_sensor"]
    /\ ota_updater.pending_updates = <<>>

ReloadFailedAfterInstall ==
    /\ current_state = "STATE_DOWNLOADING_UPDATE"
    /\ status' = "UPDATE_SUCCESS"
    /\ reload_status' # "MODULE_LOAD_SUCCESS"
    /\ current_state' # "STATE_DOWNLOADING_UPDATE"

C12_DownloadOnlyWhenIdle ==
    [][current_state = "STATE_UPDATE_AVAILABLE" =>
          /\ current_state' \in {"STATE_UPDATE_AVAILABLE", "STATE_DOWNLOADING_UPDATE"}
          /\ current_state' = "STATE_DOWNLOADING_UPDATE" => vehicle_idle'
          /\ ~vehicle_idle' => current_state' = "STATE_UPDATE_AVAILABLE"
          /\ fs' = fs
          /\ module_loader' = module_loader
          /\ ota_updater'.tracked_modules = ota_updater.tracked_modules]_vars

\* An update is pending and the machine has waited at least one loop
\* iteration in STATE_UPDATE_AVAILABLE with the vehicle not idle
C12_WaitingForIdle ==
    /\ current_state = "STATE_UPDATE_AVAILABLE"
    /\ ~vehicle_idle
    /\ ota_updater.pending_updates # <<>>
    /\ now # last_update_check

\* C13: when vehicle_idle is false in the loop iteration that downloads and
\* verifies the first pending update, the update is aborted: the state
\* machine is back in STATE_UPDATE_AVAILABLE, the staged file is gone and
\* the active file is unchanged.
C13_LostIdleAborts ==
    [][(/\ current_state = "STATE_DOWNLOADING_UPDATE"
        /\ ota_updater.pending_updates # <<>>
        /\ current_state' # "STATE_INIT"
        /\ ~vehicle_idle') =>
          /\ current_state' = "STATE_UPDATE_AVAILABLE"
          /\ fs'[FirstPending].new = NoFile
          /\ fs'[FirstPending].bin = fs[FirstPending].bin]_vars

\* MAJOR.MINOR.PATCH of the version strings of the model
VersionTriple(v) ==
    IF v = "1.1.1" THEN <<1, 1, 1>> ELSE IF v = "1.0.1" THEN <<1, 0, 1>>
    ELSE IF v = "1.0.0" THEN <<1, 0, 0>> ELSE <<0, 0, 0>>

\* Component-wise comparison, most significant component first
VersionGreater(a, b) ==
    LET x == VersionTriple(a)
        y == VersionTriple(b)
    IN \/ x[1] > y[1]
       \/ x[1] = y[1] /\ x[2] > y[2]
       \/ x[1] = y[1] /\ x[2] = y[2] /\ x[3] > y[3]

\* C14: a check makes an update pending for a tracked module only if the
\* manifest's latest_version is strictly greater than the tracked version.
C14_OnlyNewerVersionsPending ==
    [][current_state = "STATE_CHECK_UPDATES" =>
          \A i \in 1..Len(ota_updater'.pending_updates) :
              LET name == ota_updater'.pending_updates[i].module_name
              IN Tracked(name) # "" =>
                    VersionGreater(server.manifest[name].latest_version, Tracked(name))]_vars

\* critical > normal > low
PriorityRank(p) ==
    IF p = "critical" THEN 3 ELSE IF p = "normal" THEN 2 ELSE 1

\* The module names in lexicographic order
NamesInOrder == <<"distance_sensor", "speed_governor">>
NameIndex(name) == CHOOSE i \in 1..Len(NamesInOrder) : NamesInOrder[i] = name

\* Pending update u is to be processed before pending update v
ProcessedBefore(u, v) ==
    \/ PriorityRank(u.priority) > PriorityRank(v.priority)
    \/ /\ PriorityRank(u.priority) = PriorityRank(v.priority)
       /\ NameIndex(u.module_name) < NameIndex(v.module_name)

\* C15: of several pending updates the one processed by a downloading step
\* is the one of highest priority (ties: lexicographically first name), and
\* the others stay pending for later steps.
C15_PendingDrainInPriorityOrder ==
    [][(/\ current_state = "STATE_DOWNLOADING_UPDATE"
        /\ Len(ota_updater.pending_updates) > 1
        /\ current_state' \in {"STATE_UPDATE_SUCCESS", "STATE_UPDATE_FAILURE"}) =>
          LET pend == ota_updater.pending_updates
              done == CHOOSE i \in 1..Len(pend) : pend[i].module_name = module_name'
          IN /\ \A j \in 1..Len(pend) : j # done => ProcessedBefore(pend[done], pend[j])
             /\ {ota_updater'.pending_updates[k] :
                    k \in 1..Len(ota_updater'.pending_updates)}
                  = {pend[j] : j \in (1..Len(pend)) \ {done}}]_vars

\* C16: when the SHA-256 of the downloaded bytes differs from the expected
\* digest of the pending update, the step ends in the failure state with
\* UPDATE_VERIFICATION_FAILED, the staged file is deleted, and the active
\* file, the backup file, the loaded modules and the tracked versions are
\* unchanged.
DigestDiffers ==
    /\ AboutToApply
    /\ server.bin[FirstPending] # NoFile
    /\ SHA256(server.bin[FirstPending]) # ota_updater.pending_updates[1].sha256_hash

C16_DigestMismatchFails ==
    DigestDiffers =>
        \A ain \in ApplyInputs, lin \in LoadInputs :
            (ain.metaHttp /\ ain.binHttp /\ ain.hashOpen) =>
                LET m == FirstPending
                    p == ProcessFirstPending(ota_updater, module_loader, fs,
                                             server.bin, ain, lin)
                IN /\ p.state = "STATE_UPDATE_FAILURE"
                   /\ p.status = "UPDATE_VERIFICATION_FAILED"
                   /\ p.fs[m].new = NoFile
                   /\ p.fs[m].bin = fs[m].bin
                   /\ p.fs[m].backup = fs[m].backup
                   /\ p.loader = module_loader
                   /\ p.updater.tracked_modules = ota_updater.tracked_modules

\* The update about to be downloaded has an expected digest other than the
\* digest of the binary served, for a module that is installed, loaded and
\* tracked
C16_MismatchOnInstalledModule ==
    /\ DigestDiffers
    /\ fs[FirstPending].bin # NoFile
    /\ EntriesOf(module_loader, FirstPending) # {}
    /\ Tracked(FirstPending) # ""

\* C17: within one update the order is stage, verify, install, reload: the
\* active file and the backup file are modified only after the staged bytes
\* passed the digest comparison and the signature verification, and the
\* loaded modules are touched only after the install succeeded.
VerificationPasses(ain) ==
    /\ ain.metaHttp /\ ain.binHttp /\ ain.hashOpen /\ ain.metaOpen
    /\ SHA256(server.bin[FirstPending]) = ota_updater.pending_updates[1].sha256_hash
    /\ verify_signature(server.bin[FirstPending], SignatureOf(ain.metaDoc),
                        ota_updater.public_key_pem)

C17_VerifyBeforeInstallAndReload ==
    AboutToApply =>
        \A ain \in ApplyInputs, lin \in LoadInputs :
            LET m == FirstPending
                p == ProcessFirstPending(ota_updater, module_loader, fs,
                                         server.bin, ain, lin)
            IN /\ (p.fs[m].bin # fs[m].bin \/ p.fs[m].backup # fs[m].backup)
                      => VerificationPasses(ain)
               /\ p.loader # module_loader =>
                      /\ VerificationPasses(ain)
                      /\ p.status = "UPDATE_SUCCESS"
                      /\ p.fs[m].bin = server.bin[m]

\* An update failed verification and the module it was for is still
\* installed and loaded
C17_RejectedAndStillRunning ==
    /\ current_state = "STATE_UPDATE_FAILURE"
    /\ status = "UPDATE_VERIFICATION_FAILED"
    /\ fs[module_name].bin # NoFile
    /\ \E e \in EntriesOf(module_loader, module_name) :
          e.code_memory = fs[module_name].bin

MaxArtifactSize == 65536

C20_RegistryWithinCapacity ==
    /\ module_loader.loaded_count <= MAX_LOADED_MODULES
    /\ ~module_loader.overflow

\* C21: a load of a name that is already loaded returns the already-loaded
\* status and does nothing else: no region is allocated, no module code is
\* called, the registry, its count and the heap are as before.
C21_LoadOfLoadedNameIsNoOp ==
    \A name \in Modules, in \in LoadInputs :
        module_loader_is_module_loaded(module_loader, name) =>
            LET res == module_loader_load_module(module_loader, fs, name, in)
            IN /\ res.status = "MODULE_LOAD_ALREADY_LOADED"
               /\ res.calls = <<>>
               /\ res.loader = module_loader

\* A loaded module whose file is present and loadable: without the lookup
\* the load would go through
C21_LoadedAndLoadable ==
    \E name \in Modules :
        /\ module_loader_is_module_loaded(module_loader, name)
        /\ ~module_loader.overflow
        /\ LoadFromFile(module_loader, fs, name, LoadFine).status = "MODULE_LOAD_SUCCESS"
        /\ module_loader_load_module(module_loader, fs, name, LoadFine).status
               = "MODULE_LOAD_ALREADY_LOADED"

\* The regions held by the active slots of the registry
OwnedRegions(loader) ==
    {loader.modules[i].code_region : i \in {j \in SlotIndexes : loader.modules[j].is_active}}

\* C22: a load that fails leaves the heap and the registry as they were,
\* and after every loader operation the live executable regions are exactly
\* the regions held by registered modules, no two modules holding the same.
C22_LiveRegionsAreOwned ==
    /\ module_loader.heap = OwnedRegions(module_loader)
    /\ \A i, j \in SlotIndexes :
          /\ module_loader.modules[i].is_active
          /\ module_loader.modules[j].is_active
          /\ module_loader.modules[i].code_region = module_loader.modules[j].code_region
          => i = j
    /\ \A name \in Modules, in \in LoadInputs :
          LET res == module_loader_load_module(module_loader, fs, name, in)
          IN res.status # "MODULE_LOAD_SUCCESS" => res.loader = module_loader

\* C23: a reload unloads the module when it is loaded and then loads it.
\* When that load fails the named module is not registered afterwards and
\* the region it held is freed, and the modules of every other name are
\* registered as before, with the same version and the same region.
C23_FailedReloadLeavesModuleAbsent ==
    \A name \in Modules, in \in LoadInputs :
        LET res == module_loader_reload_module(module_loader, fs, name, in)
            old == module_loader_get_module(module_loader, name)
        IN res.status # "MODULE_LOAD_SUCCESS" =>
              /\ ~module_loader_is_module_loaded(res.loader, name)
              /\ old # 0 => module_loader.modules[old].code_region \notin res.loader.heap
              /\ \A m \in Modules \ {name} :
                    EntriesOf(res.loader, m) = EntriesOf(module_loader, m)

\* The calls into module code that the loop makes on a loader state:
\* update_sensors, then the update pass
LoopCalls(loader) == update_sensors_calls(loader) \cup module_loader_update_all_modules(loader)

IterationsLeft(n) == now + n * Units(TickMs) <= Units(MaxTime)
\* Iterations after which a display state is left, and a check is due
DisplayIterations == (Units(FAILURE_DISPLAY_MS) \div Units(TickMs)) + 1
CheckIterations == (Units(UPDATE_CHECK_INTERVAL) \div Units(TickMs)) + 1

C28_NoPendingOutsideUpdate ==
    current_state \in {"STATE_NORMAL_OPERATION", "STATE_UPDATE_SUCCESS", "STATE_UPDATE_FAILURE"}
        => ota_updater.pending_updates = <<>>

\* An update has just been processed while the server still offers another
\* version of the other module than the tracked one, and the list is empty
C28_EmptyAfterAttempt ==
    /\ current_state \in {"STATE_UPDATE_SUCCESS", "STATE_UPDATE_FAILURE"}
    /\ status # ""
    /\ ota_updater.pending_updates = <<>>
    /\ \E m \in Modules \ {module_name} :
          /\ server.manifest[m] # NoEntry
          /\ server.manifest[m].latest_version # Tracked(m)

\* Retries of one download and the outcomes its attempts would have
download_retries == 3
AttemptOutcomes == [1..download_retries -> BOOLEAN]
\* download_file_from_url is called once per file: the outcome of the
\* download is the outcome of its first attempt
DownloadOutcome(outcomes) == outcomes[1]

\* C29: a failed download is tried again, up to download_retries times,
\* and reported as failed only when the retries are used up.  So when one
\* of the attempts at the binary that the retry budget covers would
\* succeed, the update is not reported with a download failure.
C29_DownloadRetriedBeforeFailure ==
    AboutToApply =>
        \A ain \in ApplyInputs, outcomes \in AttemptOutcomes :
            /\ ain.metaHttp
            /\ server.bin[FirstPending] # NoFile
            /\ \E k \in 1..download_retries : outcomes[k]
            => ota_updater_download_and_apply_update(
                   ota_updater, fs, server.bin, FirstPending,
                   [ain EXCEPT !.binHttp = DownloadOutcome(outcomes)]).status
                  # "UPDATE_DOWNLOAD_FAILED"

ManifestUnavailable(in) == ~in.wifi \/ in.response # "ok"

\* C31: a check whose manifest cannot be fetched or parsed creates no
\* pending update and changes no tracked version; the check step changes no
\* module file and no loaded module, and a check that leaves the list empty
\* returns to normal operation with last_update_check set to the time of
\* the check, so that the next check is a full interval away.
C31_FailedCheckChangesNothing ==
    [][current_state = "STATE_CHECK_UPDATES" =>
          /\ \A in \in CheckInputs :
                ManifestUnavailable(in) =>
                    LET res == ota_updater_check_for_updates(ota_updater, server.manifest, in)
                    IN /\ res.status # "UPDATE_SUCCESS"
                       /\ res.updater = ota_updater
                       /\ res.updater.pending_updates = <<>>
          /\ fs' = fs
          /\ module_loader' = module_loader
          /\ ota_updater'.tracked_modules = ota_updater.tracked_modules
          /\ last_update_check' = now'
          /\ ota_updater'.pending_updates = <<>>
                => current_state' = "STATE_NORMAL_OPERATION"]_vars

\* A check has just ended in normal operation with nothing pending although
\* the server offers another version of a module than the tracked one
C31_CheckFailedWithUpdateOnOffer ==
    /\ current_state = "STATE_NORMAL_OPERATION"
    /\ now > 0
    /\ last_update_check = now
    /\ ota_updater.pending_updates = <<>>
    /\ \E m \in Modules :
          /\ ManifestHas(server.manifest, m)
          /\ Tracked(m) # ""
          /\ server.manifest[m].latest_version # Tracked(m)

\* C32: when the downloaded metadata carries no signature the update is
\* rejected as a verification failure before the install part: the active
\* file, the backup file, the loaded modules and the tracked versions are
\* as before and the machine enters the failure state.
C32_MissingSignatureRejected ==
    AboutToApply =>
        \A ain \in ApplyInputs, lin \in LoadInputs :
            /\ ain.metaDoc = MetaWithoutSignature
            /\ ain.metaHttp /\ ain.binHttp
            /\ server.bin[FirstPending] # NoFile
            => LET p == ProcessFirstPending(ota_updater, module_loader, fs,
                                            server.bin, ain, lin)
               IN /\ p.status = "UPDATE_VERIFICATION_FAILED"
                  /\ p.state = "STATE_UPDATE_FAILURE"
                  /\ \A m \in Modules :
                        /\ p.fs[m].bin = fs[m].bin
                        /\ p.fs[m].backup = fs[m].backup
                  /\ p.loader = module_loader
                  /\ p.updater.tracked_modules = ota_updater.tracked_modules

\* An update of a loaded module that is installed when its metadata carries
\* the demo signature and rejected when the signature is left out
C32_OnlyTheSignatureMissing ==
    /\ AboutToApply
    /\ EntriesOf(module_loader, FirstPending) # {}
    /\ ota_updater_download_and_apply_update(
           ota_updater, fs, server.bin, FirstPending,
           ApplyInput({}, MetaWithSignature(PlaceholderSignature))).status = "UPDATE_SUCCESS"
    /\ ota_updater_download_and_apply_update(
           ota_updater, fs, server.bin, FirstPending,
           ApplyInput({}, MetaWithoutSignature)).status = "UPDATE_VERIFICATION_FAILED"

\* C33: ota_rollback_module on a module with a backup file, when it
\* succeeds, leaves the former backup bytes in the active file and no
\* backup file; on a module without a backup file it reports failure and
\* changes no file.  The files of the other modules are never touched.
C33_RollbackRestoresBackup ==
    \A m \in Modules, renameOk \in BOOLEAN :
        LET r == ota_rollback_module(fs, m, renameOk)
        IN /\ FsExists(fs, m, "backup") /\ r.res
                => /\ r.fs[m].bin = fs[m].backup
                   /\ r.fs[m].backup = NoFile
           /\ ~FsExists(fs, m, "backup") => ~r.res /\ r.fs = fs
           /\ \A o \in Modules \ {m} : r.fs[o] = fs[o]

\* An install that failed at the rename of the staged file has been rolled
\* back: the module has its active file, still loaded, and no backup
C33_RolledBackAfterFailedInstall ==
    /\ current_state = "STATE_UPDATE_FAILURE"
    /\ status = "UPDATE_INSTALLATION_FAILED"
    /\ FsExists(fs, module_name, "bin")
    /\ ~FsExists(fs, module_name, "backup")
    /\ \E e \in EntriesOf(module_loader, module_name) : e.code_memory = fs[module_name].bin

\* C34: in the fixed speed governor, initialized, with no override set and
\* no saved configuration, get_speed_limit returns 40 for normal
\* conditions, 100 for highway conditions and 30 for city conditions, at
\* every current speed.
C34_FixedGovernorLimits ==
    /\ governor.sys_api
    /\ governor.override_speed_limit <= 0
    /\ governor.saved_speed_limit = NoData
    /\ governor.saved_highway_speed_limit = NoData
    => \A current_speed \in Speeds :
          /\ get_speed_limit(governor, current_speed, 0) = 40
          /\ get_speed_limit(governor, current_speed, 1) = 100
          /\ get_speed_limit(governor, current_speed, 2) = 30

\* The environment lets every call succeed but, at most, the two renames of
\* the install part
OnlyInstallRenamesFail(ain) ==
    \A c \in ApplyCalls \ {"backupRename", "installRename"} : ain[c]

ElapsedOnRing(from, to) == IF to >= from THEN to - from ELSE to + ClockModulus - from

\* C37: in normal operation a check starts exactly when more than
\* UPDATE_CHECK_INTERVAL has passed on the clock ring since the previous
\* check, also when the counter has wrapped in between, and every check
\* sets last_update_check to the time it was made, whatever its outcome.
C37_CheckEveryInterval ==
    [][/\ current_state = "STATE_NORMAL_OPERATION"
          => (current_state' = "STATE_CHECK_UPDATES"
                <=> ElapsedOnRing(last_update_check, now') > Units(UPDATE_CHECK_INTERVAL))
       /\ current_state = "STATE_CHECK_UPDATES" => last_update_check' = now'
       /\ current_state' = "STATE_CHECK_UPDATES" => current_state = "STATE_NORMAL_OPERATION"]_vars

\* A check is due although the counter has wrapped since the previous one
C37_CheckDueAfterWrap ==
    /\ current_state = "STATE_CHECK_UPDATES"
    /\ now < last_update_check
    /\ ElapsedOnRing(last_update_check, now) > Units(UPDATE_CHECK_INTERVAL)

\* The indexes of the active slots of the registry
ActiveSlots(loader) == {i \in SlotIndexes : loader.modules[i].is_active}

\* C38: after every loader operation loaded_count is the number of active
\* slots and the active slots are the first loaded_count slots of the
\* table, so that the slot a load writes, modules[loaded_count], is not
\* the slot of a loaded module.
C38_ActiveSlotsArePrefix ==
    /\ module_loader.loaded_count = Cardinality(ActiveSlots(module_loader))
    /\ ActiveSlots(module_loader) = 1..module_loader.loaded_count

C40_DeployedVersionsAgree ==
    /\ deploy.pc = "exit" /\ deploy.ok =>
          /\ deploy.bucket[<<DeployedModule, deploy.VERSION, BinaryName>>].kind = "binary"
          /\ deploy.bucket[<<DeployedModule, deploy.VERSION, MetadataName>>]
                = MetadataObject("this", deploy.VERSION)
          /\ deploy.bucket[ManifestPath] = ManifestObject(deploy.VERSION)
    /\ \A path \in ObjectPaths :
          /\ Len(path) = 3
          /\ path[2] # LatestDir
          /\ deploy.before[path] # NoObject
          => deploy.bucket[path] = deploy.before[path]
    /\ deploy.retries <= max_retries

====
